---------------------------- MODULE Spec2Model ----------------------------
(***************************************************************************)
(* AsciiLove (src/main.py): the glyph atlas built by get_font_bitmaps, the *)
(* per-frame conversion draw_ascii, and the ASCIICamera object that calls  *)
(* draw_ascii once per timer tick and hands the returned array back as the *)
(* buffer of the next call.                                                *)
(*                                                                         *)
(* Arrays are records [h, w, bits, px]: px[y][x] is the pixel at row y,    *)
(* column x (0-based, as numpy indexes), bits the width of the element     *)
(* type.  A frame pixel is a triple <<R, G, B>>.  A glyph bitmap comes from *)
(* an RGB image painted only with grey fills (v, v, v) (main.py:69-76), so *)
(* its three channels are equal and px[y][x] holds that one value.         *)
(***************************************************************************)
EXTENDS Integers, Sequences, FiniteSets, TLC

\* ------------------------------------------------------------- bounds
MaxH == 2
MaxW == 2
MaxChars == 2

\* ------------------------------------------------- program constants
\* below this many characters the compositing buffer is uint16 (main.py:121)
WideThreshold == 32
\* gray_index >>= 11 (main.py:151)
IndexShift == 11
\* the 8-bit channel maximum: "255 - x" and "// 255" (main.py:130,135,167,173)
ChannelMax == 255

\* None, where the code passes or stores an array: the array of width 0 bits
NoArray == [h |-> 0, w |-> 0, bits |-> 0, px |-> <<>>]
IsNone(array) == array.bits = 0

Min(a, b) == IF a < b THEN a ELSE b
Max(a, b) == IF a > b THEN a ELSE b
\* v stored in an unsigned element of the given width; no value here reaches
\* 2^31, so a 32-bit element holds every one of them unchanged
Wrap(v, bits) == IF bits >= 32 THEN v ELSE v % (2 ^ bits)
\* ceil(a / b): the length of the slice x[::b] of an axis of length a
CeilDiv(a, b) == (a + b - 1) \div b

\* ------------------------------------------------ the font resource
(* The TrueType font behind ImageFont.truetype / textbbox / draw.text, as  *)
(* a table: for each character its bounding box (w, h) and, per pixel of   *)
(* that box, the coverage 0..255 of the stroke.                            *)
CharUniverse == {"#", "."}

FontGlyph(char) ==
    IF char = "#"
    THEN [w |-> 1, h |-> 1, cov |-> [y \in 0..0 |-> [x \in 0..0 |-> 255]]]
    ELSE [w |-> 2, h |-> 2,
          cov |-> [y \in 0..1 |-> [x \in 0..1 |->
                     IF y = 0 /\ x = 0 THEN 64
                     ELSE IF y = 1 /\ x = 1 THEN 255 ELSE 0]]]

\* measure_char_dimensions: (right - left, bottom - top) of the bounding box
measure_char_dimensions(char) == <<FontGlyph(char).w, FontGlyph(char).h>>

\* draw.text on Image.new(background): the fill blended over the background
\* by the stroke's coverage
RenderPixel(background, fill, cov) ==
    (background * (ChannelMax - cov) + fill * cov) \div ChannelMax

\* ------------------------------------------------- get_font_bitmaps
RECURSIVE UniqueChars(_)
\* the keys of a dict filled in the order of chars: first occurrences
UniqueChars(chars) ==
    IF chars = <<>> THEN <<>>
    ELSE LET front == UniqueChars(SubSeq(chars, 1, Len(chars) - 1))
             last == chars[Len(chars)]
         IN IF \E i \in 1..Len(front) : front[i] = last
            THEN front ELSE Append(front, last)

RECURSIVE MinOver(_, _)
MinOver(chars, axis) ==
    IF Len(chars) = 1 THEN measure_char_dimensions(chars[1])[axis]
    ELSE Min(measure_char_dimensions(chars[1])[axis], MinOver(Tail(chars), axis))

\* the bitmap of one character: rendered in its own box, inverted when the
\* background is white, cropped to the atlas-wide minimum box
RenderedBitmap(char, background, min_width, min_height) ==
    [h |-> min_height, w |-> min_width, bits |-> 8,
     px |-> [y \in 0..(min_height - 1) |-> [x \in 0..(min_width - 1) |->
               LET v == RenderPixel(background, ChannelMax - background,
                                    FontGlyph(char).cov[y][x])
               IN IF background = ChannelMax THEN ChannelMax - v ELSE v]]]

RECURSIVE SumRow(_, _)
SumRow(row, n) == IF n = 0 THEN 0 ELSE row[n - 1] + SumRow(row, n - 1)
RECURSIVE SumRows(_, _, _)
SumRows(px, n, w) == IF n = 0 THEN 0 ELSE SumRow(px[n - 1], w) + SumRows(px, n - 1, w)
\* bitmap.sum(): every channel of every pixel
BitmapSum(bitmap) == 3 * SumRows(bitmap.px, bitmap.h, bitmap.w)

RECURSIVE PySorted(_, _, _)
\* sorted(keys, key=..., reverse=rev): stable in both directions
PySorted(keys, key, rev) ==
    IF keys = <<>> THEN <<>>
    ELSE LET front == PySorted(SubSeq(keys, 1, Len(keys) - 1), key, rev)
             c == keys[Len(keys)]
             After(e) == IF rev THEN key[e] < key[c] ELSE key[e] > key[c]
             n == Cardinality({i \in 1..Len(front) : ~After(front[i])})
         IN SubSeq(front, 1, n) \o <<c>> \o SubSeq(front, n + 1, Len(front))

SortDescending(reverse) == ~reverse

get_font_bitmaps(reverse, background, chars) ==
    IF chars = <<>> THEN <<>>
    ELSE LET keys == UniqueChars(chars)
             min_width == MinOver(keys, 1)
             min_height == MinOver(keys, 2)
             keyset == {keys[i] : i \in 1..Len(keys)}
             rendered == [c \in keyset |->
                            RenderedBitmap(c, background, min_width, min_height)]
             key == [c \in keyset |-> BitmapSum(rendered[c])]
             sorted_chars == PySorted(keys, key, SortDescending(reverse))
         IN [i \in 1..Len(sorted_chars) |-> rendered[sorted_chars[i]]]

\* --------------------------------------------------------- draw_ascii
\* 255 - x left out
ComplementDropped(pixel) == pixel

\* 255 - frame_small, 255 - monochrome
Complement(pixel) == [ch \in 1..3 |-> ChannelMax - pixel[ch]]

\* np.sum(pixel * [3, 4, 1]) * len(chars) >> 11, in 64-bit integers
gray_index(pixel, nchars) ==
    ((3 * pixel[1] + 4 * pixel[2] + 1 * pixel[3]) * nchars) \div (2 ^ IndexShift)

\* dtype of the buffer draw_ascii allocates when it is given none
AllocBits(chars) == IF Len(chars) < WideThreshold THEN 16 ELSE 32

\* astype called without copy=False: it always copies
AsTypeAlwaysCopies(bits) == TRUE

\* buffer.astype(np.uint8, copy=False) copies unless the array is uint8 already
AsTypeCopies(bits) == bits # 8

\* the element type np.multiply(ascii_image, buffer_view, out=buffer) computes
\* in: uint8 promoted with the buffer's type
ProductBits(bufbits) == Max(8, bufbits)

\* one axis of np.multiply(a, v, out=o): the operands broadcast together and the
\* output is never stretched
AxisOK(a, v, o) ==
    LET r == Max(a, Max(v, o))
    IN a \in {1, r} /\ v \in {1, r} /\ o = r

Raised(error) ==
    [status |-> "raised", error |-> error, storage |-> "none", array |-> NoArray]

\* the guard of line 107 left out: font_bitmaps[0] raises on the empty atlas
PassthroughMissing(frame) == Raised("IndexError")

\* line 107-109: with no font bitmaps the frame itself is returned
Passthrough(frame) ==
    [status |-> "returned", error |-> "", storage |-> "frame", array |-> frame]

\* the grid of cells: frame[::fh, ::fw].shape[:2]
CellRows(frame, font_bitmaps) == CeilDiv(frame.h, font_bitmaps[1].h)
CellCols(frame, font_bitmaps) == CeilDiv(frame.w, font_bitmaps[1].w)

\* frame_small as it stands when step 3 reads it: the strided samples, and
\* their complement when line 135 has reassigned the name
frame_small(frame, background, monochrome, font_bitmaps) ==
    LET fh == font_bitmaps[1].h
        fw == font_bitmaps[1].w
    IN [r \in 0..(CellRows(frame, font_bitmaps) - 1) |->
          [c \in 0..(CellCols(frame, font_bitmaps) - 1) |->
             IF Len(monochrome) = 0 /\ background = ChannelMax
             THEN Complement(frame.px[r * fh][c * fw])
             ELSE frame.px[r * fh][c * fw]]]

\* gray_index after line 151: the index draw_ascii gathers with
IndexGrid(frame, chars, background, monochrome, font_bitmaps) ==
    LET small == frame_small(frame, background, monochrome, font_bitmaps)
    IN [r \in 0..(CellRows(frame, font_bitmaps) - 1) |->
          [c \in 0..(CellCols(frame, font_bitmaps) - 1) |->
             gray_index(small[r][c], Len(chars))]]

draw_ascii(frame, chars, background, clip, monochrome, font_bitmaps, buffer) ==
    IF Len(font_bitmaps) = 0 THEN Passthrough(frame)
    ELSE
    LET fh == font_bitmaps[1].h
        fw == font_bitmaps[1].w
        oh == frame.h
        ow == frame.w
        h == CellRows(frame, font_bitmaps)
        w == CellCols(frame, font_bitmaps)
        bits == IF IsNone(buffer) THEN AllocBits(chars) ELSE buffer.bits
        bh == IF IsNone(buffer) THEN h * fh ELSE buffer.h
        bw == IF IsNone(buffer) THEN w * fw ELSE buffer.w
        \* buffer_view = buffer[:h*fh, :w*fw]
        vh == Min(bh, h * fh)
        vw == Min(bw, w * fw)
        mono == Len(monochrome) # 0
        small == frame_small(frame, background, monochrome, font_bitmaps)
        color == IF background = ChannelMax THEN Complement(monochrome) ELSE monochrome
        \* what buffer_view holds after step 2a, stored in the buffer's type
        view(y, x) == [ch \in 1..3 |->
                         Wrap((IF mono THEN 1 * color[ch]
                               ELSE small[y \div fh][x \div fw][ch]), bits)]
        index == IndexGrid(frame, chars, background, monochrome, font_bitmaps)
        \* font_bitmaps[gray_index] raises IndexError on an index past the atlas
        gather_ok == \A r \in 0..(h - 1) : \A c \in 0..(w - 1) :
                        index[r][c] < Len(font_bitmaps)
        ascii(y, x) == font_bitmaps[index[y \div fh][x \div fw] + 1].px[y % fh][x % fw]
        \* step 5: the three clips
        ah == IF clip THEN Min(h * fh, oh) ELSE h * fh
        aw == IF clip THEN Min(w * fw, ow) ELSE w * fw
        cvh == IF clip THEN Min(vh, oh) ELSE vh
        cvw == IF clip THEN Min(vw, ow) ELSE vw
        cbh == IF clip THEN Min(bh, oh) ELSE bh
        cbw == IF clip THEN Min(bw, ow) ELSE bw
        At(n, i) == IF n = 1 THEN 0 ELSE i
        out == [y \in 0..(cbh - 1) |-> [x \in 0..(cbw - 1) |-> [ch \in 1..3 |->
                  LET product == Wrap(ascii(At(ah, y), At(aw, x))
                                      * view(At(cvh, y), At(cvw, x))[ch],
                                      ProductBits(bits))
                      quotient == product \div ChannelMax
                      as8 == Wrap(quotient, 8)
                  IN IF background = ChannelMax THEN ChannelMax - as8 ELSE as8]]]
    IN IF ~gather_ok THEN Raised("IndexError")
       ELSE IF ~(AxisOK(ah, cvh, cbh) /\ AxisOK(aw, cvw, cbw)) THEN Raised("ValueError")
       ELSE [status |-> "returned", error |-> "",
             storage |-> IF IsNone(buffer) \/ AsTypeCopies(bits) THEN "new" ELSE "buffer",
             array |-> [h |-> cbh, w |-> cbw, bits |-> 8, px |-> out]]

\* -------------------------------------------------------- ASCIICamera
VARIABLES chars, reverse, background, clip, monochrome, font_loads,
          font_bitmaps, pc, buffer, frame, passed, result

vars == <<chars, reverse, background, clip, monochrome, font_loads,
          font_bitmaps, pc, buffer, frame, passed, result>>

config == <<chars, reverse, background, clip, monochrome, font_loads>>

RECURSIVE SeqsUpTo(_, _)
SeqsUpTo(S, n) ==
    IF n = 0 THEN {<<>>}
    ELSE SeqsUpTo(S, n - 1)
         \cup {Append(s, e) : s \in {t \in SeqsUpTo(S, n - 1) : Len(t) = n - 1}, e \in S}

Black == <<0, 0, 0>>
White == <<255, 255, 255>>
Blue == <<0, 128, 255>>
Green == <<0, 255, 0>>

\* the frames the camera delivers: H x W, two colours in a checkerboard
Patterns == {<<Black, Black>>, <<White, White>>, <<Blue, White>>}
Frame(H, W, pat) ==
    [h |-> H, w |-> W, bits |-> 8,
     px |-> [y \in 0..(H - 1) |-> [x \in 0..(W - 1) |->
               IF (x + y) % 2 = 0 THEN pat[1] ELSE pat[2]]]]
Frames == {Frame(H, W, pat) : H \in 1..MaxH, W \in 1..MaxW, pat \in Patterns}

NoCall == [status |-> "none", error |-> "", storage |-> "none", array |-> NoArray]
Shape(array) == [h |-> array.h, w |-> array.w, bits |-> array.bits]

\* the parameters ASCIICamera.__init__ sets before the atlas is built
Init ==
    /\ chars \in SeqsUpTo(CharUniverse, MaxChars)
    /\ reverse \in BOOLEAN
    /\ background \in {0, ChannelMax}
    /\ clip \in BOOLEAN
    /\ monochrome \in {<<>>, Green}
    /\ font_loads \in BOOLEAN
    /\ font_bitmaps = <<>>
    /\ pc = "init"
    /\ buffer = NoArray
    /\ frame = NoArray
    /\ passed = Shape(NoArray)
    /\ result = NoCall

\* __init__, lines 204-230: the atlas, or [] when get_font_bitmaps raises
\* (ImageFont.truetype on an unreadable font file)
BuildAtlas ==
    /\ pc = "init"
    /\ font_bitmaps' = IF font_loads
                        THEN get_font_bitmaps(reverse, background, chars)
                        ELSE <<>>
    /\ pc' = "running"
    /\ buffer' = NoArray
    /\ UNCHANGED <<config, frame, passed, result>>

\* update_frame on a tick whose cap.read() delivers f.  An exception of
\* draw_ascii leaves the slot before line 256, so self.buffer keeps its value;
\* nothing catches it and the run ends there.
update_frame(f) ==
    /\ pc = "running"
    /\ LET r == draw_ascii(f, chars, background, clip, monochrome,
                           font_bitmaps, buffer)
       IN /\ frame' = f
          /\ passed' = Shape(buffer)
          /\ result' = r
          /\ IF r.status = "raised"
             THEN pc' = "crashed" /\ buffer' = buffer
             ELSE pc' = pc /\ buffer' = r.array
    /\ UNCHANGED <<config, font_bitmaps>>

\* update_frame on a tick whose cap.read() fails: lines 234-236
NoFrame ==
    /\ pc = "running"
    /\ UNCHANGED vars

Next ==
    \/ BuildAtlas
    \/ \E f \in Frames : update_frame(f)
    \/ NoFrame

Spec == Init /\ [][Next]_vars

\* ------------------------------------------- vocabulary of the properties
Called == result.status # "none"
Returned == result.status = "returned"
AtlasEmpty == Len(font_bitmaps) = 0
GlyphCount == Len(font_bitmaps)
Mono == Len(monochrome) # 0
PassedNone == passed.bits = 0
\* the character set repeats no character: len(chars) is the glyph count
NoRepeats == Len(chars) = Len(font_bitmaps)
\* the buffer argument of the last call, as far as draw_ascii reads it
PassedBuffer == [h |-> passed.h, w |-> passed.w, bits |-> passed.bits, px |-> <<>>]

\* the output shape the last call's frame, glyph size and clip flag require
RequiredH ==
    IF clip THEN frame.h ELSE CellRows(frame, font_bitmaps) * font_bitmaps[1].h
RequiredW ==
    IF clip THEN frame.w ELSE CellCols(frame, font_bitmaps) * font_bitmaps[1].w
PassedMatches == passed.h = RequiredH /\ passed.w = RequiredW
ResultHasShape(H, W) == result.array.h = H /\ result.array.w = W

Luminance(pixel) == 3 * pixel[1] + 4 * pixel[2] + pixel[3]
\* the frame pixel the fixed-stride downsample takes for the cell of (y, x)
Sample(y, x) ==
    frame.px[(y \div font_bitmaps[1].h) * font_bitmaps[1].h]
            [(x \div font_bitmaps[1].w) * font_bitmaps[1].w]
\* the pixel, at (y, x), of the glyph the last call selected for that cell
SelectedMask(y, x) ==
    LET fh == font_bitmaps[1].h
        fw == font_bitmaps[1].w
        index == IndexGrid(frame, chars, background, monochrome, font_bitmaps)
    IN font_bitmaps[index[y \div fh][x \div fw] + 1].px[y % fh][x % fw]
Density(i) == BitmapSum(font_bitmaps[i])

Negative(pixel) == <<255 - pixel[1], 255 - pixel[2], 255 - pixel[3]>>
NegativeArray(array) ==
    [array EXCEPT !.px = [y \in 0..(array.h - 1) |-> [x \in 0..(array.w - 1) |->
                            Negative(array.px[y][x])]]]
SamePixels(a, b) ==
    /\ a.h = b.h /\ a.w = b.w
    /\ \A y \in 0..(a.h - 1) : \A x \in 0..(a.w - 1) : \A ch \in 1..3 :
          a.px[y][x][ch] = b.px[y][x][ch]

\* ------------------------------------------------------------------ C1
\* C1: every call of draw_ascii with clip=True and a non-empty atlas returns
\* a raster with exactly the frame's H rows and W columns, whatever buffer
\* the previous call left.  Stated for character sets without repeats.
C1_ClipReturnsFrameSize ==
    (Called /\ ~AtlasEmpty /\ NoRepeats /\ clip)
        => (Returned /\ ResultHasShape(frame.h, frame.w))

\* ------------------------------------------------------------------ C2
\* C2: under dark polarity, with buffer None or the previous call's buffer of
\* the same output shape, every output channel value is
\* floor(glyph_mask_pixel * tint / 255), the product never being truncated.
C2_BlendIsExact ==
    (Called /\ ~AtlasEmpty /\ background = 0 /\ Returned
            /\ (PassedNone \/ PassedMatches))
        => \A y \in 0..(result.array.h - 1) : \A x \in 0..(result.array.w - 1) :
             \A ch \in 1..3 :
               result.array.px[y][x][ch]
                 = (SelectedMask(y, x)
                    * (IF Mono THEN monochrome[ch] ELSE Sample(y, x)[ch])) \div 255

\* ------------------------------------------------------------------ C3
\* C3: a call given a buffer whose shape differs from the required output
\* shape does not fail: it allocates a replacement and returns a result of
\* the required shape.  Stated for character sets without repeats.
C3_MismatchedBufferReplaced ==
    (Called /\ ~AtlasEmpty /\ NoRepeats /\ ~PassedNone /\ ~PassedMatches)
        => (Returned /\ result.storage = "new"
                     /\ ResultHasShape(RequiredH, RequiredW))

\* ------------------------------------------------------------------ C4
\* C4: a conversion that is passed the buffer the previous conversion
\* returned, of the output shape it requires itself, returns a raster in the
\* storage of that buffer: it allocates no new one.
C4_ReusedBufferKeepsStorage ==
    (Called /\ ~AtlasEmpty /\ Returned /\ ~PassedNone /\ PassedMatches)
        => (result.storage = "buffer" /\ ResultHasShape(passed.h, passed.w))

C4_Witness ==
    /\ Called /\ ~AtlasEmpty /\ Returned /\ ~PassedNone /\ PassedMatches
    /\ result.storage = "buffer"
    /\ frame.h = MaxH /\ frame.w = MaxW

\* ------------------------------------------------------------------ C5
\* C5: when the font fails to load or the character set is empty the atlas
\* is left empty, and every later draw_ascii call returns the input frame
\* itself, dimensions and pixels unchanged, without raising.
C5_EmptyAtlasPassthrough ==
    (pc # "init" /\ (~font_loads \/ chars = <<>>))
        => /\ AtlasEmpty
           /\ pc # "crashed"
           /\ Called => /\ Returned
                        /\ result.storage = "frame"
                        /\ result.array = frame
                        /\ buffer = frame

C5_Witness ==
    /\ pc = "running" /\ ~font_loads /\ chars # <<>>
    /\ Called /\ ~PassedNone /\ result.array = frame
    /\ passed.h # frame.h

\* ------------------------------------------------------------------ C6
\* C6: every glyph index draw_ascii gathers with lies in [0, N-1], N the
\* number of glyphs in the atlas.
C6_IndexWithinAtlas ==
    (Called /\ ~AtlasEmpty)
        => \A r \in 0..(CellRows(frame, font_bitmaps) - 1) :
             \A c \in 0..(CellCols(frame, font_bitmaps) - 1) :
               LET i == IndexGrid(frame, chars, background, monochrome,
                                  font_bitmaps)[r][c]
               IN 0 <= i /\ i <= GlyphCount - 1

\* ------------------------------------------------------------------ C7
\* the atlas of the same characters, built for dark polarity with the
\* ordering direction flipped
FlippedDarkAtlas ==
    IF font_loads THEN get_font_bitmaps(~reverse, 0, chars) ELSE <<>>

\* C7 as stated: the channel-wise inverse of the light-polarity output equals
\* the dark-polarity output on the same frame, the atlas ordering flipped.
C7_InverseOfLightIsDarkFlipped ==
    (Called /\ ~AtlasEmpty /\ background = ChannelMax /\ Returned)
        => LET dark == draw_ascii(frame, chars, 0, clip, monochrome,
                                  FlippedDarkAtlas, PassedBuffer)
           IN dark.status = "returned"
              /\ SamePixels(NegativeArray(result.array), dark.array)

\* the dark-polarity call the light-polarity one mirrors: same atlas, same
\* buffer argument, the frame complemented (per-cell colour) or the override
\* colour complemented (override mode)
DarkCounterpart ==
    draw_ascii(IF Mono THEN frame ELSE NegativeArray(frame), chars, 0, clip,
               IF Mono THEN Negative(monochrome) ELSE <<>>,
               font_bitmaps, PassedBuffer)

\* C7 as amended: with a non-empty atlas, the channel-wise inverse of the
\* light-polarity output equals the dark-polarity output with the same atlas
\* on the complemented frame (per-cell colour) or with the complemented
\* override colour (override mode); given the same buffer argument both calls
\* raise or both return.
C7_InverseOfLightIsDarkOfNegative ==
    (Called /\ ~AtlasEmpty /\ background = ChannelMax)
        => /\ DarkCounterpart.status = result.status
           /\ Returned => SamePixels(NegativeArray(result.array),
                                     DarkCounterpart.array)

C7_Witness ==
    /\ Called /\ ~AtlasEmpty /\ background = ChannelMax /\ Returned
    /\ ~Mono /\ GlyphCount = 2
    /\ frame.h = MaxH /\ frame.w = MaxW
    /\ \E y \in 0..(result.array.h - 1) : \E x \in 0..(result.array.w - 1) :
          result.array.px[y][x] \notin {<<0, 0, 0>>, <<255, 255, 255>>}

\* ------------------------------------------------------------------ C8
\* C8: with an override colour under dark polarity every output channel is
\* floor(glyph_mask_pixel * override_channel / 255), and two frames with the
\* same glyph-index grid give identical outputs.
C8_OverrideTintOnly ==
    (Called /\ ~AtlasEmpty /\ background = 0 /\ Mono /\ Returned
            /\ (PassedNone \/ PassedMatches))
        => /\ \A y \in 0..(result.array.h - 1) : \A x \in 0..(result.array.w - 1) :
                \A ch \in 1..3 :
                  result.array.px[y][x][ch]
                    = (SelectedMask(y, x) * monochrome[ch]) \div 255
           /\ \A other \in Frames :
                (/\ other.h = frame.h /\ other.w = frame.w
                 /\ IndexGrid(other, chars, background, monochrome, font_bitmaps)
                      = IndexGrid(frame, chars, background, monochrome, font_bitmaps))
                  => draw_ascii(other, chars, background, clip, monochrome,
                                font_bitmaps, PassedBuffer).array = result.array

\* ------------------------------------------------------------------ C9
\* C9: the atlas is ordered by density: non-decreasing when the reverse flag
\* is false, non-increasing when it is true.
C9_AtlasOrderedByDensity ==
    (pc # "init" /\ ~AtlasEmpty)
        => \A i \in 1..GlyphCount : \A j \in 1..GlyphCount :
             i < j => IF reverse THEN Density(i) >= Density(j)
                                 ELSE Density(i) <= Density(j)

\* ----------------------------------------------------------------- C10
\* C10: in every cell, under both polarities and in both colour modes, the
\* selected glyph index is ((3R + 4G + B) * N) >> 11, (R, G, B) the sampled
\* frame pixel and N the glyph count.  Stated for character sets without
\* repeats, where len(chars) = N.
C10_IndexFromSampledLuminance ==
    (Called /\ ~AtlasEmpty /\ NoRepeats)
        => \A r \in 0..(CellRows(frame, font_bitmaps) - 1) :
             \A c \in 0..(CellCols(frame, font_bitmaps) - 1) :
               IndexGrid(frame, chars, background, monochrome, font_bitmaps)[r][c]
                 = (Luminance(frame.px[r * font_bitmaps[1].h][c * font_bitmaps[1].w])
                    * GlyphCount) \div 2048

=============================================================================
